---- MODULE Spec2Model ----
(***************************************************************************)
(* Model of src/src/trezor/ui/text.py: the layout pass render_words and    *)
(* the Text widget that calls it.  A display call is logged in `draws`;    *)
(* glyph widths come from the display collaborator (ui.display).           *)
(***************************************************************************)
EXTENDS Integers, Sequences, FiniteSets, TLC

\* ------------------------------------------------------------ constants
TEXT_HEADER_HEIGHT == 48
TEXT_LINE_HEIGHT == 26
TEXT_MARGIN_LEFT == 14
TEXT_MAX_LINES == 4
BR == -256

\* the ui module (font ids, colors, display width)
NORMAL == -1
BOLD == -2
MONO == -3
WIDTH == 240
FG == 64511
BG == 0
GREY == 40593
RED == 63488
TITLE_GREY == 40594
ORANGE_ICON == 64864
\* integers that are no font id, no color of the theme and not BR
UnrecognizedInts == {-7}

\* ------------------------------------------------------------ bounds
MaxTokens == 3
MaxWordLen == 2
MaxLinesArg == 2
MaxRenders == 2

Chars == {"a", "b"}

\* ------------------------------------------------------------ display
\* ui.display.text_width of one glyph.  In NORMAL "a" is a narrow glyph and two
\* "b" nearly fill a line; in BOLD two "a" are wider than a line and a single
\* "b" is wider than the usable line; MONO glyphs all have one width.  "c" is a
\* glyph that after a "b" in NORMAL ends exactly one dash short of the right
\* boundary, and is narrow in BOLD.
GlyphWidth(c, f) ==
    CASE c = " " -> 4
      [] c = "-" -> 8
      [] c = "." -> 4
      [] c = "a" -> (IF f = MONO THEN 110 ELSE IF f = BOLD THEN 120 ELSE 5)
      [] c = "b" -> (IF f = MONO THEN 110 ELSE IF f = BOLD THEN 230 ELSE 112)
      [] c = "c" -> (IF f = MONO THEN 110 ELSE IF f = BOLD THEN 10 ELSE 106)
      [] OTHER -> 0

RECURSIVE text_width(_, _)
text_width(text, f) ==
    IF text = <<>> THEN 0
    ELSE GlyphWidth(Head(text), f) + text_width(Tail(text), f)

\* ------------------------------------------------------------ tokens
WordToken(s) == [int |-> FALSE, num |-> 0, str |-> s]
IntToken(n) == [int |-> TRUE, num |-> n, str |-> <<>>]

Strings == UNION {[1..n -> Chars] : n \in 0..MaxWordLen}
IntTokens == {BR, NORMAL, BOLD, MONO, RED} \cup UnrecognizedInts
Tokens == {WordToken(s) : s \in Strings} \cup {IntToken(n) : n \in IntTokens}
Contents == UNION {[1..n -> Tokens] : n \in 0..MaxTokens}

\* keyword arguments of the constructor: each is passed or left out
KwArgs ==
    {[has_new_lines |-> hn, new_lines |-> FALSE, has_max_lines |-> hm, max_lines |-> m] :
        hn \in BOOLEAN, hm \in {TRUE}, m \in 0..MaxLinesArg}
    \cup
    {[has_new_lines |-> hn, new_lines |-> FALSE, has_max_lines |-> FALSE, max_lines |-> 0] :
        hn \in BOOLEAN}

VARIABLES
    self,       \* the Text widget's fields
    kw,         \* the keyword arguments the widget was constructed with
    calls,      \* number of render() calls started
    prev,       \* display calls of the previous render() call
    draws,      \* display calls of the current render() call
    seen,       \* cursor and style at which each token of the pass was fetched
    pc,         \* position: "idle", "for", "while", "render"
    ret,        \* how the last pass ended: "none", "early", "exhausted"
    words, new_lines, max_lines,            \* parameters of render_words
    font, fg, bg, offset_x, offset_y,       \* rendering state
    i,          \* index of the token the for loop is at
    word, width

vars == <<self, kw, calls, prev, draws, seen, pc, ret, words, new_lines, max_lines,
          font, fg, bg, offset_x, offset_y, i, word, width>>

params == <<words, new_lines, max_lines>>
widget == <<self, kw, calls, prev>>

\* ------------------------------------------------------------ Text.__init__
\* line 102
DefaultNewLines == TRUE
\* one line more than TEXT_MAX_LINES
DefaultMaxLinesPlusOne == TEXT_MAX_LINES + 1
\* line 103
DefaultMaxLines == TEXT_MAX_LINES

Text(header_text, header_icon, content, k) ==
    [header_text |-> header_text,
     header_icon |-> header_icon,
     content |-> content,
     new_lines |-> IF k.has_new_lines THEN k.new_lines ELSE DefaultNewLines,
     max_lines |-> IF k.has_max_lines THEN k.max_lines ELSE DefaultMaxLines,
     icon_color |-> ORANGE_ICON]

\* ------------------------------------------------------------ render_words
OFFSET_X_MAX == WIDTH
OFFSET_Y_MAX == TEXT_HEADER_HEIGHT + TEXT_LINE_HEIGHT * max_lines

SPACE == text_width(<<" ">>, NORMAL)
DASH == text_width(<<"-">>, BOLD)
ELLIPSIS == text_width(<<".", ".", ".">>, BOLD)

\* line 18
InitialX == TEXT_MARGIN_LEFT
\* the first line placed at the header's bottom edge
InitialYAtHeader == TEXT_HEADER_HEIGHT
\* line 19
InitialY == TEXT_HEADER_HEIGHT + TEXT_LINE_HEIGHT
\* the font kept from whatever the previous pass left
InitialFontCarried == font
\* line 15
InitialFont == NORMAL
\* line 16
InitialFg == FG

\* one ui.display.text call (kind and tok say which statement and token made it)
Draw(kind, x, y, text, f, fgc, bgc) ==
    [kind |-> kind, x |-> x, y |-> y, text |-> text, font |-> f,
     fg |-> fgc, bg |-> bgc, tok |-> i]

EllipsisAt(x, y) == Draw("ellipsis", x, y, <<".", ".", ".">>, BOLD, GREY, bg)

\* line 47: the while condition
DoesNotFit(x, w) == x + w + SPACE + ELLIPSIS > OFFSET_X_MAX
\* line 48 with <= for <
space_for_another_line_inclusive == offset_y <= OFFSET_Y_MAX
\* line 48
space_for_another_line == offset_y < OFFSET_Y_MAX
\* line 49
word_fits_in_one_line(w) == w < (OFFSET_X_MAX - TEXT_MARGIN_LEFT)

\* the scan with <= for < in the test of line 66
RECURSIVE ScanInclusive(_, _, _, _, _, _)
ScanInclusive(wd, f, index, w, x, splitw) ==
    IF index < 1 THEN [index |-> 0, width |-> w]
    ELSE LET w2 == w - text_width(<<wd[index + 1]>>, f)
         IN IF x + w2 + splitw <= OFFSET_X_MAX
            THEN [index |-> index, width |-> w2]
            ELSE ScanInclusive(wd, f, index - 1, w2, x, splitw)

\* lines 63-69: the backward scan; gives the split index and the running width
RECURSIVE Scan(_, _, _, _, _, _)
Scan(wd, f, index, w, x, splitw) ==
    IF index < 1 THEN [index |-> 0, width |-> w]
    ELSE LET w2 == w - text_width(<<wd[index + 1]>>, f)
         IN IF x + w2 + splitw < OFFSET_X_MAX
            THEN [index |-> index, width |-> w2]
            ELSE Scan(wd, f, index - 1, w2, x, splitw)

FindSpan(wd, f, w, x, splitw) == Scan(wd, f, Len(wd) - 1, w, x, splitw)

\* line 70: word[:index]
Span(wd, index) == SubSeq(wd, 1, index)
\* word[index + 1:] for word[index:], which drops the character at the split
RestSkipping(wd, index) == SubSeq(wd, index + 2, Len(wd))
\* line 80: word[index:]
Rest(wd, index) == SubSeq(wd, index + 1, Len(wd))

\* lines 36, 53, 78, 94
NextLine(y) == y + TEXT_LINE_HEIGHT
\* lines 85-86 with line 86 left out
AdvanceNoSpace(x, w) == x + w
\* lines 85-86
Advance(x, w) == x + w + SPACE

\* ------------------------------------------------------------ actions
\* the state after Text(header_text, header_icon, *content, **k)
Constructed(content, k) ==
    /\ kw = k
    /\ self = Text(<<"h">>, "icon", content, k)
    /\ calls = 0
    /\ prev = <<>>
    /\ draws = <<>>
    /\ seen = <<>>
    /\ pc = "idle"
    /\ ret = "none"
    /\ words = <<>>
    /\ new_lines = FALSE
    /\ max_lines = 0
    /\ font = NORMAL
    /\ fg = FG
    /\ bg = BG
    /\ offset_x = 0
    /\ offset_y = 0
    /\ i = 0
    /\ word = <<>>
    /\ width = 0

Init == \E content \in Contents, k \in KwArgs : Constructed(content, k)

\* line 113: the ui.header call, logged with its arguments
Header(w) ==
    [kind |-> "header", text |-> w.header_text, icon |-> w.header_icon,
     fg |-> TITLE_GREY, bg |-> BG, icon_color |-> w.icon_color]

\* Text.render (lines 112-114) entering render_words (lines 13-26)
Render ==
    /\ pc = "idle"
    /\ calls < MaxRenders
    /\ calls' = calls + 1
    /\ prev' = draws
    /\ draws' = <<Header(self)>>
    /\ seen' = <<>>
    /\ words' = self.content
    /\ new_lines' = self.new_lines
    /\ max_lines' = self.max_lines
    /\ font' = InitialFont
    /\ fg' = InitialFg
    /\ bg' = BG
    /\ offset_x' = InitialX
    /\ offset_y' = InitialY
    /\ i' = 1
    /\ word' = <<>>
    /\ width' = 0
    /\ pc' = "for"
    /\ ret' = "none"
    /\ UNCHANGED <<self, kw>>

\* line 28: the for loop fetches the next token
AtToken ==
    /\ pc = "for"
    /\ i <= Len(words)
    /\ seen' = Append(seen, [x |-> offset_x, y |-> offset_y, font |-> font, fg |-> fg])

\* LineBreak with the return after the ellipsis left out
LineBreakNoReturn ==
    /\ AtToken
    /\ words[i].int
    /\ words[i].num = BR
    /\ draws' = IF ~(offset_y < OFFSET_Y_MAX)
                THEN Append(draws, EllipsisAt(offset_x, offset_y))
                ELSE draws
    /\ offset_x' = TEXT_MARGIN_LEFT
    /\ offset_y' = NextLine(offset_y)
    /\ i' = i + 1
    /\ UNCHANGED <<widget, params, pc, ret, font, fg, bg, word, width>>

\* LineBreak with the reset of offset_x (line 35) left out
LineBreakKeepsX ==
    /\ AtToken
    /\ words[i].int
    /\ words[i].num = BR
    /\ IF ~(offset_y < OFFSET_Y_MAX)
       THEN /\ draws' = Append(draws, EllipsisAt(offset_x, offset_y))
            /\ pc' = "idle"
            /\ ret' = "early"
            /\ UNCHANGED <<offset_x, offset_y, i>>
       ELSE /\ offset_y' = NextLine(offset_y)
            /\ i' = i + 1
            /\ UNCHANGED <<offset_x, draws, pc, ret>>
    /\ UNCHANGED <<widget, params, font, fg, bg, word, width>>

\* lines 30-36
LineBreak ==
    /\ AtToken
    /\ words[i].int
    /\ words[i].num = BR
    /\ IF ~(offset_y < OFFSET_Y_MAX)
       THEN /\ draws' = Append(draws, EllipsisAt(offset_x, offset_y))
            /\ pc' = "idle"
            /\ ret' = "early"
            /\ UNCHANGED <<offset_x, offset_y, i>>
       ELSE /\ offset_x' = TEXT_MARGIN_LEFT
            /\ offset_y' = NextLine(offset_y)
            /\ i' = i + 1
            /\ UNCHANGED <<draws, pc, ret>>
    /\ UNCHANGED <<widget, params, font, fg, bg, word, width>>

\* lines 37-39
FontChange ==
    /\ AtToken
    /\ words[i].int
    /\ words[i].num # BR
    /\ words[i].num \in {NORMAL, BOLD, MONO}
    /\ font' = words[i].num
    /\ i' = i + 1
    /\ UNCHANGED <<widget, params, draws, pc, ret, fg, bg, offset_x, offset_y, word, width>>

\* ColorChange that skips an integer that is no color of the theme
ColorChangeIgnoresUnknown ==
    /\ AtToken
    /\ words[i].int
    /\ words[i].num # BR
    /\ words[i].num \notin {NORMAL, BOLD, MONO}
    /\ fg' = IF words[i].num \in UnrecognizedInts THEN fg ELSE words[i].num
    /\ i' = i + 1
    /\ UNCHANGED <<widget, params, draws, pc, ret, font, bg, offset_x, offset_y, word, width>>

\* ColorChange assigning the background for the foreground
ColorChangeSetsBg ==
    /\ AtToken
    /\ words[i].int
    /\ words[i].num # BR
    /\ words[i].num \notin {NORMAL, BOLD, MONO}
    /\ bg' = words[i].num
    /\ i' = i + 1
    /\ UNCHANGED <<widget, params, draws, pc, ret, font, fg, offset_x, offset_y, word, width>>

\* lines 40-42
ColorChange ==
    /\ AtToken
    /\ words[i].int
    /\ words[i].num # BR
    /\ words[i].num \notin {NORMAL, BOLD, MONO}
    /\ fg' = words[i].num
    /\ i' = i + 1
    /\ UNCHANGED <<widget, params, draws, pc, ret, font, bg, offset_x, offset_y, word, width>>

\* line 45
MeasureWord ==
    /\ AtToken
    /\ ~words[i].int
    /\ word' = words[i].str
    /\ width' = text_width(words[i].str, font)
    /\ pc' = "while"
    /\ UNCHANGED <<widget, params, draws, ret, font, fg, bg, offset_x, offset_y, i>>

\* WrapLine without the test for another line (line 48)
WrapLineUnchecked ==
    /\ pc = "while"
    /\ DoesNotFit(offset_x, width)
    /\ word_fits_in_one_line(width)
    /\ offset_x' = TEXT_MARGIN_LEFT
    /\ offset_y' = NextLine(offset_y)
    /\ pc' = "render"
    /\ UNCHANGED <<widget, params, draws, seen, ret, font, fg, bg, i, word, width>>

\* WrapLine with the line advance and the break left out
WrapLineNoAdvance ==
    /\ pc = "while"
    /\ DoesNotFit(offset_x, width)
    /\ space_for_another_line
    /\ word_fits_in_one_line(width)
    /\ offset_x' = TEXT_MARGIN_LEFT
    /\ UNCHANGED <<widget, params, draws, seen, pc, ret, font, fg, bg, offset_y, i, word, width>>

\* lines 47-54: the word moves whole to a fresh line and the loop is left
WrapLine ==
    /\ pc = "while"
    /\ DoesNotFit(offset_x, width)
    /\ space_for_another_line
    /\ word_fits_in_one_line(width)
    /\ offset_x' = TEXT_MARGIN_LEFT
    /\ offset_y' = NextLine(offset_y)
    /\ pc' = "render"
    /\ UNCHANGED <<widget, params, draws, seen, ret, font, fg, bg, i, word, width>>

\* lines 55-81: one split of the word
SplitWord ==
    /\ pc = "while"
    /\ DoesNotFit(offset_x, width)
    /\ ~(space_for_another_line /\ word_fits_in_one_line(width))
    /\ LET more == space_for_another_line
           split == IF more THEN <<"-">> ELSE <<".", ".", ".">>
           splitw == IF more THEN DASH ELSE ELLIPSIS
           found == FindSpan(word, font, width, offset_x, splitw)
           span == Span(word, found.index)
           rest == Rest(word, found.index)
       IN /\ draws' = draws \o
                <<Draw("span", offset_x, offset_y, span, font, fg, bg),
                  Draw(IF more THEN "dash" ELSE "ellipsis",
                       offset_x + found.width, offset_y, split, BOLD, GREY, bg)>>
          /\ IF ~more
             THEN /\ pc' = "idle"
                  /\ ret' = "early"
                  /\ width' = found.width
                  /\ UNCHANGED <<offset_x, offset_y, word>>
             ELSE /\ offset_x' = TEXT_MARGIN_LEFT
                  /\ offset_y' = NextLine(offset_y)
                  /\ word' = rest
                  /\ width' = text_width(rest, font)
                  /\ UNCHANGED <<pc, ret>>
    /\ UNCHANGED <<widget, params, seen, font, fg, bg, i>>

\* lines 83-94: the word (or its remainder) is drawn, then the implicit line break
RenderWord ==
    /\ \/ pc = "render"
       \/ pc = "while" /\ ~DoesNotFit(offset_x, width)
    /\ LET x2 == Advance(offset_x, width)
           drawn == Append(draws, Draw("word", offset_x, offset_y, word, font, fg, bg))
       IN IF new_lines
          THEN IF ~(offset_y < OFFSET_Y_MAX)
               THEN /\ draws' = Append(drawn, EllipsisAt(x2, offset_y))
                    /\ offset_x' = x2
                    /\ pc' = "idle"
                    /\ ret' = "early"
                    /\ UNCHANGED <<offset_y, i>>
               ELSE /\ draws' = drawn
                    /\ offset_x' = TEXT_MARGIN_LEFT
                    /\ offset_y' = NextLine(offset_y)
                    /\ i' = i + 1
                    /\ pc' = "for"
                    /\ UNCHANGED ret
          ELSE /\ draws' = drawn
               /\ offset_x' = x2
               /\ i' = i + 1
               /\ pc' = "for"
               /\ UNCHANGED <<offset_y, ret>>
    /\ UNCHANGED <<widget, params, seen, font, fg, bg, word, width>>

\* line 28: the token sequence is exhausted and render_words returns
Return ==
    /\ pc = "for"
    /\ i > Len(words)
    /\ pc' = "idle"
    /\ ret' = "exhausted"
    /\ UNCHANGED <<widget, params, draws, seen, font, fg, bg, offset_x, offset_y, i, word, width>>

Next ==
    \/ Render
    \/ LineBreak
    \/ FontChange
    \/ ColorChange
    \/ MeasureWord
    \/ WrapLine
    \/ SplitWord
    \/ RenderWord
    \/ Return

Spec == Init /\ [][Next]_vars

\* The interpreter runs the pass to completion: a step that can be taken is taken.
FairSpec == Spec /\ WF_vars(Next)

\* The scenario of one more token than the default number of lines, on a widget
\* constructed with the default keyword arguments.
FiveTokens ==
    {WordToken(<<"a">>), WordToken(<<"b">>), WordToken(<<"b", "b">>),
     IntToken(BR), IntToken(BOLD), IntToken(RED)}

NoKwArgs == {k \in KwArgs : ~k.has_new_lines /\ ~k.has_max_lines}

InitFive ==
    \E content \in [1..(TEXT_MAX_LINES + 1) -> FiveTokens], k \in NoKwArgs :
        Constructed(content, k)

SpecFive == InitFive /\ [][Next]_vars

\* The scenario of longer words: contents of fewer tokens whose words have one
\* more character, so that a split chooses among several proper prefixes.
LongChars == {"b", "c"}
LongStrings == UNION {[1..n -> LongChars] : n \in 0..(MaxWordLen + 1)}
LongTokens == {WordToken(s) : s \in LongStrings} \cup {IntToken(n) : n \in IntTokens}
LongContents == UNION {[1..n -> LongTokens] : n \in 0..(MaxTokens - 1)}

InitLong == \E content \in LongContents, k \in KwArgs : Constructed(content, k)

SpecLong == InitLong /\ [][Next]_vars

\* ------------------------------------------------------------ history
Started == calls >= 1
Finished == Started /\ pc = "idle"
Runs == {k \in 1..Len(draws) : draws[k].kind # "header"}
Primary == {k \in Runs : draws[k].kind \in {"word", "span"}}
Fetched == {t \in 1..Len(seen) : t <= Len(words)}
FetchedWords == {t \in Fetched : ~words[t].int}

IsPrefix(p, s) == Len(p) <= Len(s) /\ SubSeq(s, 1, Len(p)) = p

\* the primary runs of token t among the first n display calls, concatenated
RECURSIVE PrimaryText(_, _)
PrimaryText(t, n) ==
    IF n = 0 THEN <<>>
    ELSE IF draws[n].kind \in {"word", "span"} /\ draws[n].tok = t
         THEN PrimaryText(t, n - 1) \o draws[n].text
         ELSE PrimaryText(t, n - 1)

\* the primary runs drawn for token t
CallsOf(t) == {k \in Primary : draws[k].tok = t}

\* token t was drawn by exactly one primary run: the whole word at (x, y)
DrawnWholeAt(t, x, y) ==
    /\ Cardinality(CallsOf(t)) = 1
    /\ \A k \in CallsOf(t) :
          /\ draws[k].kind = "word"
          /\ draws[k].text = words[t].str
          /\ draws[k].x = x
          /\ draws[k].y = y

\* the pass is past token t, or has ended at or after it
Settled(t) == t < i \/ (pc = "idle" /\ t <= i)

\* tokens a..b are Word tokens
AllWords(a, b) == \A t \in a..b : ~words[t].int

\* measured widths of the words a..b in font f, one space between neighbours
RECURSIVE LineWidth(_, _, _)
LineWidth(a, b, f) ==
    IF b < a THEN 0
    ELSE IF b = a THEN text_width(words[a].str, f)
    ELSE LineWidth(a, b - 1, f) + SPACE + text_width(words[b].str, f)

\* the x at which word t starts when a..t are laid out from the left margin
StartX(a, t, f) ==
    IF t = a THEN TEXT_MARGIN_LEFT
    ELSE TEXT_MARGIN_LEFT + LineWidth(a, t - 1, f) + SPACE

\* the runs of words a..b that a pass with new_lines = false has reached at
\* the left margin of a line
MarginRuns ==
    {r \in (1..Len(words)) \X (1..Len(words)) :
        /\ r[1] <= r[2]
        /\ r[1] \in Fetched
        /\ AllWords(r[1], r[2])
        /\ seen[r[1]].x = TEXT_MARGIN_LEFT}

\* words a..b all drawn whole on the line where a was fetched, a space apart
SameLine(a, b) ==
    \A t \in a..b :
        Settled(t) => DrawnWholeAt(t, StartX(a, t, seen[a].font), seen[a].y)

\* the first Word token of the content, 0 when there is none
FirstWord ==
    IF \E t \in 1..Len(words) : ~words[t].int
    THEN CHOOSE t \in 1..Len(words) :
            ~words[t].int /\ \A u \in 1..(t - 1) : words[u].int
    ELSE 0

\* ------------------------------------------------------------ claims

\* C1: every pass of render_words terminates, whatever the tokens, glyph
\* widths and max_lines: a pass that has started reaches its return.
C1_Terminates == [](pc # "idle" => <>(pc = "idle"))

\* C1 witness: a pass has returned after a word wider than the usable line
\* was carried whole (empty prefix, split index 0) over two lines.
C1_Witness ==
    /\ Finished
    /\ \E k1, k2 \in Runs :
          /\ draws[k1].kind = "span" /\ draws[k2].kind = "span"
          /\ draws[k1].tok = draws[k2].tok
          /\ draws[k1].text = <<>> /\ draws[k2].text = <<>>
          /\ draws[k1].y < draws[k2].y
          /\ words[draws[k1].tok].str # <<>>

\* C2 as stated, for the passes with max_lines >= 1: no word, word prefix or
\* dash marker is drawn at a y at or past the bottom boundary
\* TEXT_HEADER_HEIGHT + TEXT_LINE_HEIGHT * max_lines.
C2_NothingAtBottom ==
    max_lines >= 1 =>
        \A k \in Runs :
            draws[k].kind \in {"word", "span", "dash"} => draws[k].y < OFFSET_Y_MAX

\* C2 amended: a dash marker is drawn only strictly above the bottom boundary;
\* for max_lines >= 1 no run of any kind is drawn below it (y > boundary), the
\* words and prefixes of the last line are drawn exactly at it, and every
\* truncation ellipsis is drawn exactly at it.
C2_Contained ==
    \A k \in Runs :
        /\ draws[k].kind = "dash" => draws[k].y < OFFSET_Y_MAX
        /\ max_lines >= 1 => draws[k].y <= OFFSET_Y_MAX
        /\ max_lines >= 1 /\ draws[k].kind = "ellipsis" => draws[k].y = OFFSET_Y_MAX

\* C2 witness: with max_lines >= 2 a pass drew a dash above the boundary, a
\* word or prefix on the boundary line and the ellipsis after it.
C2_Witness ==
    /\ Finished
    /\ max_lines >= 2
    /\ \E k1, k2, k3 \in Runs :
          /\ draws[k1].kind = "dash"
          /\ draws[k2].kind \in {"word", "span"}
          /\ draws[k2].text # <<>>
          /\ draws[k2].y = OFFSET_Y_MAX
          /\ draws[k3].kind = "ellipsis"

\* C3 as stated: every primary run (whole word, remainder, or prefix before a
\* split marker, the empty prefix included) ends at or before the region
\* width: x + measured width <= ui.WIDTH.
C3_RightBoundary ==
    \A k \in Primary :
        draws[k].x + text_width(draws[k].text, draws[k].font) <= OFFSET_X_MAX

\* C4: the primary runs of a word, concatenated in draw order, are a prefix
\* of the word; they are the whole word once its final run is drawn, and
\* until then they and the unconsumed remainder make up the word.
C4_Reconstructs ==
    \A t \in FetchedWords :
        LET txt == PrimaryText(t, Len(draws))
        IN /\ IsPrefix(txt, words[t].str)
           /\ (\E k \in Runs : draws[k].kind = "word" /\ draws[k].tok = t)
                 => txt = words[t].str
           /\ t < i => txt = words[t].str
           /\ (pc \in {"while", "render"} /\ t = i) => txt \o word = words[t].str

\* C4 witness: a word was split with a dash after a non-empty prefix and its
\* remainder was then drawn as the final run.
C4_Witness ==
    \E k1, k2 \in Runs :
        /\ draws[k1].kind = "span" /\ draws[k1].text # <<>>
        /\ draws[k1 + 1].kind = "dash"
        /\ draws[k2].kind = "word" /\ draws[k2].text # <<>>
        /\ draws[k2].tok = draws[k1].tok
        /\ draws[k1].text \o draws[k2].text = words[draws[k1].tok].str

\* C5: the truncation ellipsis is drawn at most once and is the last display
\* call of the pass: once it is drawn the pass has returned with the token
\* index where it was; and every return from inside the token loop has the
\* ellipsis as the last display call.
C5_EllipsisLast ==
    /\ \A k \in Runs :
          draws[k].kind = "ellipsis" =>
             k = Len(draws) /\ pc = "idle" /\ ret = "early" /\ i = Len(seen)
    /\ ret = "early" =>
          pc = "idle" /\ Len(draws) >= 2 /\ draws[Len(draws)].kind = "ellipsis"

\* C5 witness: a pass returned early by each of the three returns in turn:
\* here on a LineBreak token, with tokens left unprocessed.
C5_Witness ==
    /\ Finished
    /\ ret = "early"
    /\ i < Len(words)
    /\ words[i].int
    /\ draws[Len(draws)].kind = "ellipsis"

\* C6 as stated, for max_lines >= 1 and two or more words: with new_lines =
\* false, consecutive words from the left margin with left margin + total
\* width (one space between neighbours) <= region width are all drawn whole
\* at the same y, a space apart.
C6_FitsWithoutMargin ==
    (Started /\ ~new_lines /\ max_lines >= 1) =>
        \A r \in MarginRuns :
            (/\ r[1] < r[2]
             /\ TEXT_MARGIN_LEFT + LineWidth(r[1], r[2], seen[r[1]].font) <= OFFSET_X_MAX)
                => SameLine(r[1], r[2])

\* C6 amended: the same, for words whose total width also leaves the margin
\* of one space and one ellipsis that the fit check of line 47 reserves:
\* left margin + total + space width + ellipsis width <= region width.
C6_GreedyPacking ==
    (Started /\ ~new_lines) =>
        \A r \in MarginRuns :
            TEXT_MARGIN_LEFT + LineWidth(r[1], r[2], seen[r[1]].font) + SPACE + ELLIPSIS
                    <= OFFSET_X_MAX
                => SameLine(r[1], r[2])

\* C6 witness: two non-empty words that fit with the margin were drawn on
\* one line by a pass with new_lines = false that has returned.
C6_Witness ==
    /\ Finished
    /\ ~new_lines
    /\ \E r \in MarginRuns :
          /\ r[1] < r[2]
          /\ \A t \in r[1]..r[2] : words[t].str # <<>>
          /\ TEXT_MARGIN_LEFT + LineWidth(r[1], r[2], seen[r[1]].font) + SPACE + ELLIPSIS
                <= OFFSET_X_MAX
          /\ SameLine(r[1], r[2])

\* C7: with max_lines = 1, when the first Word token (no LineBreak before it)
\* is wider than the region width, the pass makes exactly two display calls,
\* a proper prefix of the word at (TEXT_MARGIN_LEFT, TEXT_HEADER_HEIGHT +
\* TEXT_LINE_HEIGHT) and an ellipsis on the same line, and returns, whatever
\* tokens follow.
C7_PrefixThenEllipsis ==
    LET t == FirstWord
    IN (Started /\ max_lines = 1 /\ t # 0 /\ \A u \in 1..(t - 1) : words[u].num # BR) =>
          IF t \notin Fetched
          THEN Runs = {}
          ELSE text_width(words[t].str, seen[t].font) > WIDTH =>
                 IF pc = "while"
                 THEN Runs = {}
                 ELSE /\ pc = "idle" /\ ret = "early" /\ i = t
                      /\ Len(draws) = 3
                      /\ draws[2].kind = "span"
                      /\ draws[2].x = TEXT_MARGIN_LEFT
                      /\ draws[2].y = TEXT_HEADER_HEIGHT + TEXT_LINE_HEIGHT
                      /\ IsPrefix(draws[2].text, words[t].str)
                      /\ Len(draws[2].text) < Len(words[t].str)
                      /\ draws[3].kind = "ellipsis"
                      /\ draws[3].text = <<".", ".", ".">>
                      /\ draws[3].y = draws[2].y

\* C7 witness: such a pass has returned after a non-empty prefix and the
\* ellipsis, leaving a later token unprocessed.
C7_Witness ==
    /\ Finished
    /\ max_lines = 1
    /\ FirstWord \in Fetched
    /\ \A u \in 1..(FirstWord - 1) : words[u].num # BR
    /\ text_width(words[FirstWord].str, seen[FirstWord].font) > WIDTH
    /\ FirstWord < Len(words)
    /\ Len(draws) = 3
    /\ draws[2].text # <<>>
    /\ draws[3].kind = "ellipsis"

\* the content is five Word tokens that each pass the fit check of line 47
\* at the left margin
FiveFittingWords ==
    /\ Len(words) = TEXT_MAX_LINES + 1
    /\ \A t \in 1..Len(words) :
          /\ ~words[t].int
          /\ ~DoesNotFit(TEXT_MARGIN_LEFT, text_width(words[t].str, NORMAL))

\* word t drawn whole at the left margin of line t
OnOwnLine(t) ==
    DrawnWholeAt(t, TEXT_MARGIN_LEFT, TEXT_HEADER_HEIGHT + TEXT_LINE_HEIGHT * t)

\* C8: with new_lines = true, max_lines = 4 and five words that each fit on a
\* line, the first four are drawn on four successive lines, then exactly one
\* ellipsis is drawn and the pass returns; the fifth word is never drawn.
C8_FifthWordOmitted ==
    (Started /\ new_lines /\ max_lines = 4 /\ FiveFittingWords) =>
        /\ \A t \in 1..4 : Settled(t) => OnOwnLine(t)
        /\ CallsOf(5) = {}
        /\ i <= 4
        /\ Finished =>
              /\ ret = "early"
              /\ Len(draws) = 6
              /\ draws[6].kind = "ellipsis"
              /\ draws[6].y = draws[5].y
              /\ \A k \in 1..5 : draws[k].kind # "ellipsis"

\* C8 witness: the pass over five fitting words has returned.
C8_Witness ==
    /\ Finished
    /\ new_lines
    /\ max_lines = 4
    /\ FiveFittingWords
    /\ \E t \in 1..4 : words[t].str # words[5].str

\* the state part of C9
C9_State ==
    /\ ~kw.has_new_lines => self.new_lines = TRUE
    /\ ~kw.has_max_lines => self.max_lines = 4
    /\ kw.has_new_lines => self.new_lines = kw.new_lines
    /\ kw.has_max_lines => self.max_lines = kw.max_lines
    /\ Started =>
          /\ draws[1] = Header(self)
          /\ \A k \in 2..Len(draws) : draws[k].kind # "header"
          /\ words = self.content
          /\ new_lines = self.new_lines
          /\ max_lines = self.max_lines
    /\ (Finished /\ calls >= 2) => draws = prev

\* C9: render() draws the header exactly once and before every content call,
\* runs the pass on the stored content with the new_lines and max_lines of
\* the construction (true and 4 when left out), changes no field of the
\* widget, and every render() call after the first repeats the display
\* calls of the one before.
C9_RenderIdempotent == [](C9_State) /\ [][self' = self]_vars

\* C9 witness: a second render() of a widget constructed with the defaults
\* has returned, having drawn content.
C9_Witness ==
    /\ Finished
    /\ calls = 2
    /\ ~kw.has_new_lines
    /\ ~kw.has_max_lines
    /\ Len(draws) >= 3

\* C10: a pass starts from font NORMAL, foreground ui.FG, background ui.BG
\* and the cursor (TEXT_MARGIN_LEFT, TEXT_HEADER_HEIGHT + TEXT_LINE_HEIGHT),
\* whatever the pass before left, and two passes over the same tokens,
\* new_lines and max_lines make the same display calls in the same order.
C10_PassesAgree ==
    /\ Started => bg = BG
    /\ Len(seen) >= 1 =>
          seen[1] = [x |-> TEXT_MARGIN_LEFT,
                     y |-> TEXT_HEADER_HEIGHT + TEXT_LINE_HEIGHT,
                     font |-> NORMAL, fg |-> FG]
    /\ (Finished /\ calls >= 2) =>
          SubSeq(draws, 2, Len(draws)) = SubSeq(prev, 2, Len(prev))

\* C10 witness: a second pass has returned after a first one that ended with
\* another font, another foreground and the cursor moved, and drew a word.
C10_Witness ==
    /\ Finished
    /\ calls = 2
    /\ font # NORMAL
    /\ fg # FG
    /\ offset_y # TEXT_HEADER_HEIGHT + TEXT_LINE_HEIGHT
    /\ \E k \in Runs : draws[k].kind = "word"

\* a display call that drew the whole word of its token in the final draw step
WholeWordRuns ==
    {k \in Runs : draws[k].kind = "word" /\ draws[k].text = words[draws[k].tok].str}

\* C11 as stated: after a wrap the fit condition is evaluated again for the
\* whole word, so every whole word drawn by the final draw step satisfies
\* x + width + space width + ellipsis width <= region width where it is drawn.
C11_WrapRechecksFit ==
    \A k \in WholeWordRuns :
        draws[k].x + text_width(draws[k].text, draws[k].font) + SPACE + ELLIPSIS
            <= OFFSET_X_MAX

\* the display calls that drew a prefix of a split word
Spans == {k \in Runs : draws[k].kind = "span"}

\* every prefix is followed by its marker on the same line: a dash when the
\* line is strictly above the bottom boundary, an ellipsis otherwise
C12_State ==
    \A k \in Spans :
        /\ k + 1 <= Len(draws)
        /\ draws[k + 1].y = draws[k].y
        /\ draws[k + 1].tok = draws[k].tok
        /\ IF draws[k].y < OFFSET_Y_MAX
           THEN draws[k + 1].kind = "dash" /\ draws[k + 1].text = <<"-">>
           ELSE draws[k + 1].kind = "ellipsis" /\ draws[k + 1].text = <<".", ".", ".">>

\* a step that splits the word: after a dash the suffix is the working word
\* at the left margin of the next line, back at the fit check of the same
\* token; after an ellipsis the pass has returned
C12_Step ==
    (Len(draws') > Len(draws) /\ draws'[Len(draws) + 1].kind = "span") =>
        LET p == draws'[Len(draws) + 1]
            m == draws'[Len(draws) + 2]
        IN /\ pc = "while"
           /\ Len(draws') = Len(draws) + 2
           /\ p.x = offset_x /\ p.y = offset_y
           /\ m.kind = "dash" <=> offset_y < OFFSET_Y_MAX
           /\ m.kind = "dash" =>
                 /\ pc' = "while"
                 /\ i' = i
                 /\ offset_x' = TEXT_MARGIN_LEFT
                 /\ offset_y' = offset_y + TEXT_LINE_HEIGHT
                 /\ p.text \o word' = word
                 /\ width' = text_width(word', font)
           /\ m.kind # "dash" =>
                 /\ m.kind = "ellipsis"
                 /\ pc' = "idle"
                 /\ ret' = "early"

\* C12: whenever a word is split the marker is a dash exactly when the cursor
\* y is strictly below the bottom boundary and an ellipsis otherwise; after a
\* dash the unconsumed suffix continues at (left margin, y + one line height)
\* and re-enters the fit check, so a word can be split over more than two
\* lines; after an ellipsis the pass terminates.
C12_MarkerByLine == [](C12_State) /\ [][C12_Step]_vars

\* C12 witness: one word was split over more than two lines (a non-empty
\* prefix and dash, then a second dash one line lower at the left margin)
\* and its last split ended the pass with an ellipsis.
C12_Witness ==
    /\ Finished
    /\ \E k1, k2, k3 \in Spans :
          /\ draws[k1].tok = draws[k2].tok /\ draws[k2].tok = draws[k3].tok
          /\ draws[k1].text # <<>>
          /\ draws[k1 + 1].kind = "dash"
          /\ draws[k2 + 1].kind = "dash"
          /\ draws[k2].x = TEXT_MARGIN_LEFT
          /\ draws[k2].y = draws[k1].y + TEXT_LINE_HEIGHT
          /\ draws[k3 + 1].kind = "ellipsis"
          /\ draws[k3].y = draws[k2].y + TEXT_LINE_HEIGHT

\* the length of the longest proper prefix of wd that, drawn in font f at x
\* and followed by a marker of width m, ends strictly before the region
\* width; 0 when there is none
LongestFitting(wd, f, x, m) ==
    LET Good == {n \in 1..(Len(wd) - 1) :
                    x + text_width(SubSeq(wd, 1, n), f) + m < WIDTH}
    IN IF Good = {} THEN 0 ELSE CHOOSE n \in Good : \A q \in Good : q <= n

\* a step that splits the working word draws its longest fitting proper
\* prefix and keeps the rest of the word
C13_Step ==
    (Len(draws') > Len(draws) /\ draws'[Len(draws) + 1].kind = "span") =>
        LET p == draws'[Len(draws) + 1]
            m == text_width(draws'[Len(draws) + 2].text, BOLD)
            n == LongestFitting(word, font, offset_x, m)
        IN /\ p.text = SubSeq(word, 1, n)
           /\ pc' = "while" => word' = SubSeq(word, n + 1, Len(word))
           /\ (pc' = "while" /\ n = 0) => word' = word

\* C13: when a word is split at cursor x with a marker of width m, the prefix
\* drawn is the longest proper prefix p of the word (1 <= length(p) <=
\* length(word) - 1) with x + width(p) + m < region width, strictly; when
\* there is none the drawn prefix is empty and the entire word is carried
\* over as the unconsumed suffix.
C13_LongestPrefix == [][C13_Step]_vars

\* the first split of token t: no earlier display call belongs to t
FirstSpans == {k \in Spans : \A j \in Runs : draws[j].tok = draws[k].tok => j >= k}

\* C13 witness: a three-character word was split after its first character
\* because its two-character prefix ends exactly at region width minus the
\* marker width, and another word was split after two characters.
C13_Witness ==
    \E k1, k2 \in FirstSpans :
        /\ Len(words[draws[k1].tok].str) = 3
        /\ Len(draws[k1].text) = 1
        /\ draws[k1].x + text_width(SubSeq(words[draws[k1].tok].str, 1, 2), draws[k1].font)
              + text_width(draws[k1 + 1].text, BOLD) = WIDTH
        /\ Len(words[draws[k2].tok].str) = 3
        /\ Len(draws[k2].text) = 2

\* C14 as stated: the split marker is drawn immediately after the drawn
\* prefix, at the same y and at x = cursor x + measured width of the prefix
\* actually drawn, also when that prefix is empty (split index 0, words of
\* one character included), where the marker is drawn at the cursor x.
C14_MarkerAfterPrefix ==
    \A k \in Spans :
        k + 1 <= Len(draws) =>
            /\ draws[k + 1].kind \in {"dash", "ellipsis"}
            /\ draws[k + 1].y = draws[k].y
            /\ draws[k + 1].x = draws[k].x + text_width(draws[k].text, draws[k].font)

\* the pass is at the for loop with token t next
AtTokenOf(t) == pc = "for" /\ i = t /\ t <= Len(words)

\* the token at t is the LineBreak token
IsBR(t) == words[t].int /\ words[t].num = BR

\* a step taken at a LineBreak token
C15_Step ==
    (AtTokenOf(i) /\ IsBR(i)) =>
        IF offset_y >= OFFSET_Y_MAX
        THEN /\ Len(draws') = Len(draws) + 1
             /\ SubSeq(draws', 1, Len(draws)) = draws
             /\ LET e == draws'[Len(draws')]
                IN /\ e.text = <<".", ".", ".">>
                   /\ e.x = offset_x /\ e.y = offset_y
                   /\ e.font = BOLD /\ e.fg = GREY /\ e.bg = bg
             /\ pc' = "idle"
             /\ ret' = "early"
             /\ i' = i
        ELSE /\ draws' = draws
             /\ offset_x' = TEXT_MARGIN_LEFT
             /\ offset_y' = offset_y + TEXT_LINE_HEIGHT
             /\ font' = font /\ fg' = fg /\ bg' = bg
             /\ pc' = "for"
             /\ i' = i + 1

\* C15: on a LineBreak token, if the cursor y is at or past the bottom
\* boundary one ellipsis is drawn at the current (x, y) in bold/grey and the
\* pass terminates with no further token processed; otherwise no display
\* call is made, x is reset to the left margin and y advances by exactly one
\* line height, with font and colors unchanged.
C15_LineBreakToken == [][C15_Step]_vars

\* C15 witness: a pass took a LineBreak token away from the left margin,
\* moved to the left margin of the next line, and returned at a later
\* LineBreak token with the ellipsis.
C15_Witness ==
    /\ Finished
    /\ ret = "early"
    /\ i <= Len(words)
    /\ IsBR(i)
    /\ draws[Len(draws)].kind = "ellipsis"
    /\ \E t \in 1..(i - 1) :
          /\ IsBR(t)
          /\ seen[t].x > TEXT_MARGIN_LEFT
          /\ seen[t + 1].x = TEXT_MARGIN_LEFT
          /\ seen[t + 1].y = seen[t].y + TEXT_LINE_HEIGHT

\* the token at t is a font id
IsFont(t) == words[t].int /\ words[t].num \in {NORMAL, BOLD, MONO}

\* the token at t is an integer that is neither BR nor a font id
IsColor(t) == words[t].int /\ ~IsBR(t) /\ ~IsFont(t)

\* the font set by the last FontChange token before t, NORMAL when none
RECURSIVE LastFont(_)
LastFont(t) ==
    IF t <= 1 THEN NORMAL
    ELSE IF IsFont(t - 1) THEN words[t - 1].num ELSE LastFont(t - 1)

\* the foreground set by the last ColorChange token before t, ui.FG when none
RECURSIVE LastFg(_)
LastFg(t) ==
    IF t <= 1 THEN FG
    ELSE IF IsColor(t - 1) THEN words[t - 1].num ELSE LastFg(t - 1)

\* word runs carry the style set last before their token, markers and
\* ellipses are bold and grey, and the background is the default one
C16_State ==
    \A k \in Runs :
        /\ draws[k].bg = BG
        /\ draws[k].kind \in {"word", "span"} =>
              /\ draws[k].font = LastFont(draws[k].tok)
              /\ draws[k].fg = LastFg(draws[k].tok)
        /\ draws[k].kind \in {"dash", "ellipsis"} =>
              /\ draws[k].font = BOLD
              /\ draws[k].fg = GREY

\* a step taken at a FontChange or ColorChange token
C16_Step ==
    (AtTokenOf(i) /\ (IsFont(i) \/ IsColor(i))) =>
        /\ draws' = draws
        /\ offset_x' = offset_x
        /\ offset_y' = offset_y
        /\ bg' = bg
        /\ IsFont(i) => font' = words[i].num /\ fg' = fg
        /\ IsColor(i) => fg' = words[i].num /\ font' = font
        /\ pc' = "for"
        /\ i' = i + 1

\* C16: a FontChange or ColorChange token changes only the active font,
\* respectively only the active foreground: cursor x and y, the background
\* and the other style component are unchanged and no display call is made;
\* every later word run is drawn with the font and foreground set last,
\* while split markers and ellipses are always drawn bold and grey.
C16_StyleFrame == [](C16_State) /\ [][C16_Step]_vars

\* C16 witness: after a font change and a color change a word was split:
\* its non-empty prefix and its remainder were drawn in the new font and
\* foreground, the dash between them bold and grey.
C16_Witness ==
    \E k1, k2 \in Primary :
        /\ draws[k1].kind = "span" /\ draws[k1].text # <<>>
        /\ draws[k1].font # NORMAL /\ draws[k1].fg # FG
        /\ draws[k1 + 1].kind = "dash"
        /\ draws[k1 + 1].fg = GREY
        /\ draws[k2].kind = "word" /\ draws[k2].text # <<>>
        /\ draws[k2].tok = draws[k1].tok
        /\ draws[k2].font = draws[k1].font /\ draws[k2].fg = draws[k1].fg
        /\ \E t, u \in 1..(draws[k1].tok - 1) : IsFont(t) /\ IsColor(u)

\* a step taken at an integer token, by the token's value
C17_Step ==
    (AtTokenOf(i) /\ words[i].int) =>
        LET n == words[i].num
        IN /\ n = BR =>
                 /\ font' = font /\ fg' = fg
                 /\ \/ Len(draws') = Len(draws) + 1 /\ pc' = "idle"
                    \/ /\ draws' = draws
                       /\ offset_x' = TEXT_MARGIN_LEFT
                       /\ offset_y' = offset_y + TEXT_LINE_HEIGHT
           /\ (n # BR /\ n \in {NORMAL, BOLD, MONO}) =>
                 /\ font' = n /\ fg' = fg
                 /\ draws' = draws /\ offset_x' = offset_x /\ offset_y' = offset_y
           /\ (n # BR /\ n \notin {NORMAL, BOLD, MONO}) =>
                 /\ fg' = n /\ font' = font
                 /\ draws' = draws /\ offset_x' = offset_x /\ offset_y' = offset_y
                 /\ pc' = "for" /\ i' = i + 1

\* C17: every integer token is classified by value: BR is a line break, one
\* of the three font ids NORMAL, BOLD, MONO is a font change, and any other
\* integer, an unrecognized one included, is taken as a foreground color
\* change; an unrecognized integer never stops the pass, never draws and
\* never moves the cursor.
C17_ClassifiedByValue == [][C17_Step]_vars

\* C17 witness: a pass met an unrecognized integer away from the left
\* margin, left the cursor where it was, drew the next word with that integer
\* as foreground and ran to the end of the tokens.
C17_Witness ==
    /\ Finished
    /\ ret = "exhausted"
    /\ \E t \in 1..(Len(words) - 1) :
          /\ words[t].int
          /\ words[t].num \in UnrecognizedInts
          /\ seen[t].x > TEXT_MARGIN_LEFT
          /\ seen[t + 1].x = seen[t].x
          /\ seen[t + 1].y = seen[t].y
          /\ seen[t + 1].fg = words[t].num
          /\ \E k \in Primary :
                /\ draws[k].tok = t + 1
                /\ draws[k].text # <<>>
                /\ draws[k].fg = words[t].num

\* the Word tokens that the final draw step has not drawn: never reached, or
\* cut by the ellipsis
OmittedWords ==
    {t \in 1..Len(words) :
        ~words[t].int /\ ~\E k \in Runs : draws[k].kind = "word" /\ draws[k].tok = t}

\* the content is exactly max_lines non-empty Word tokens that each pass the
\* fit check of line 47 at the left margin
ExactlyMaxLinesFittingWords ==
    /\ Len(words) = max_lines
    /\ \A t \in 1..Len(words) :
          /\ ~words[t].int
          /\ words[t].str # <<>>
          /\ ~DoesNotFit(TEXT_MARGIN_LEFT, text_width(words[t].str, NORMAL))

\* C18 as stated, in the case it names: the truncation ellipsis is drawn
\* only when content is omitted (at least one Word token, or at least one
\* character of a word, was not rendered), so a pass with new_lines = true
\* over exactly max_lines words that each fit on a line omits nothing and
\* draws no ellipsis.
C18_EllipsisMeansOmission ==
    (Finished /\ new_lines /\ max_lines >= 1 /\ ExactlyMaxLinesFittingWords) =>
        /\ OmittedWords = {}
        /\ \A k \in Runs : draws[k].kind # "ellipsis"

\* the y coordinates of the display calls of the pass
LinesDrawn == {draws[k].y : k \in Runs}

\* the cursor y is on one of the lines 1..max_lines, and so is every call
C19_State ==
    (Started /\ max_lines >= 1) =>
        /\ \E n \in 1..max_lines : offset_y = TEXT_HEADER_HEIGHT + TEXT_LINE_HEIGHT * n
        /\ TEXT_HEADER_HEIGHT + TEXT_LINE_HEIGHT <= offset_y
        /\ offset_y <= TEXT_HEADER_HEIGHT + TEXT_LINE_HEIGHT * max_lines
        /\ \A y \in LinesDrawn :
              \E n \in 1..max_lines : y = TEXT_HEADER_HEIGHT + TEXT_LINE_HEIGHT * n
        /\ Cardinality(LinesDrawn) <= max_lines

\* within a pass the cursor y does not decrease
C19_Step == (Started /\ calls' = calls /\ max_lines >= 1) => offset_y' >= offset_y

\* C19: for max_lines >= 1, in every state of a pass the cursor y never
\* decreases, y - TEXT_HEADER_HEIGHT is a positive multiple of
\* TEXT_LINE_HEIGHT and TEXT_HEADER_HEIGHT + TEXT_LINE_HEIGHT <= y <=
\* TEXT_HEADER_HEIGHT + TEXT_LINE_HEIGHT * max_lines; hence the display
\* calls of a pass fall on at most max_lines distinct lines.
C19_CursorOnLines == [](C19_State) /\ [][C19_Step]_vars

\* C19 witness: a pass with max_lines >= 2 has ended with the cursor on the
\* last line after drawing on every one of the max_lines lines, a wrapped
\* word among them.
C19_Witness ==
    /\ Finished
    /\ max_lines >= 2
    /\ offset_y = TEXT_HEADER_HEIGHT + TEXT_LINE_HEIGHT * max_lines
    /\ Cardinality(LinesDrawn) = max_lines
    /\ \E k \in WholeWordRuns :
          /\ draws[k].text # <<>>
          /\ draws[k].y > seen[draws[k].tok].y

\* C20 as stated: wrapping never leaves an empty line behind: a whole word
\* that the wrap step moved to a fresh line left a line that already held a
\* run (the cursor x was greater than the left margin when the word
\* arrived), so a word narrower than the usable width that arrives at the
\* left margin of a line is drawn on that line.
C20_NoEmptyLineLeft ==
    \A k \in WholeWordRuns :
        LET t == draws[k].tok
        IN /\ draws[k].y > seen[t].y => seen[t].x > TEXT_MARGIN_LEFT
           /\ (/\ seen[t].x = TEXT_MARGIN_LEFT
               /\ word_fits_in_one_line(text_width(words[t].str, seen[t].font)))
                 => draws[k].y = seen[t].y

====
